---- MODULE Spec2Model ----
(***************************************************************************)
(* EC2 underutilized-instances report (ec2_underutilized_report.py).       *)
(*                                                                         *)
(* Numbers.  A figure the program keeps with two decimals (a utilization   *)
(* percentage, a size in MB) is held as an integer number of hundredths:   *)
(* 5.0 is 500, 19.99 is 1999.  A raw telemetry value (a float of the       *)
(* metrics API) is held as the numerator of a fraction whose denominator   *)
(* is a power of two, so that it is exactly a double and Python's round()  *)
(* rounds it half-to-even: percentages in units of 1/1024, byte counts in  *)
(* units of one byte.                                                      *)
(***************************************************************************)
EXTENDS Integers, Sequences, FiniteSets, TLC

VARIABLES
    inventory,       \* what describe_instances holds: pages of reservations of instances
    pc,              \* position of main()/run()
    instance_ids,    \* instance_ids of collect_all_instances_data
    instances_data,  \* self.instances_data
    csv_file,        \* the file at self.csv_file
    msg,             \* the MIMEMultipart message send_email_report is building
    outbox,          \* messages the mail relay accepted
    exit_code,       \* exit status of the process, -1 while it runs
    trace,           \* the steps the process has taken, in order
    call             \* the last direct call of a method and its result

vars == <<inventory, pc, instance_ids, instances_data, csv_file,
          msg, outbox, exit_code, trace, call>>

----------------------------------------------------------------------------
(* Values *)

\* n percent (or n MB) in hundredths
Pct(n) == n * 100

\* denominator of a raw percentage of the metrics API
PctDen == 32 * 32

\* variant: a decimal megabyte
BytesPerMB_decimal == 1000 * 1000

\* 1024 * 1024: bytes per MB
BytesPerMB == 1024 * 1024

RoundHalfEven(num, den) ==
    LET q == num \div den
        r == num % den
    IN  IF 2 * r > den THEN q + 1
        ELSE IF 2 * r < den THEN q
        ELSE IF q % 2 = 0 THEN q ELSE q + 1

\* round(num / den, 2), in hundredths
Round2(num, den) == RoundHalfEven(num * 100, den)

\* a call that returned v / a call that raised exception e
Ret(v) == [raised |-> FALSE, value |-> v]
Raise(e) == [raised |-> TRUE, value |-> e]

IDLE == "Consider stopping or terminating this idle instance"
DOWNSIZE == "Downsize to a smaller instance type (e.g., t3.micro)"
SPOT == "Consider switching to a cost-effective Spot Instance"
HIGH == "High usage - review and possibly upgrade"
MONITOR == "Monitor further - utilization looks reasonable"

----------------------------------------------------------------------------
(* generate_recommendation *)

\* variant: the thresholds compared with <= and >=
generate_recommendation_le(cpu_util, mem_util, network_in, network_out) ==
    IF cpu_util <= Pct(5) /\ mem_util <= Pct(20) THEN IDLE
    ELSE IF cpu_util <= Pct(10) /\ mem_util <= Pct(30) THEN DOWNSIZE
    ELSE IF cpu_util <= Pct(20) /\ mem_util <= Pct(40) THEN SPOT
    ELSE IF cpu_util >= Pct(80) \/ mem_util >= Pct(80) THEN HIGH
    ELSE MONITOR

\* variant: the idle row also asks for next to no network traffic
generate_recommendation_net(cpu_util, mem_util, network_in, network_out) ==
    IF cpu_util < Pct(5) /\ mem_util < Pct(20) /\ network_in + network_out < Pct(1) THEN IDLE
    ELSE IF cpu_util < Pct(10) /\ mem_util < Pct(30) THEN DOWNSIZE
    ELSE IF cpu_util < Pct(20) /\ mem_util < Pct(40) THEN SPOT
    ELSE IF cpu_util > Pct(80) \/ mem_util > Pct(80) THEN HIGH
    ELSE MONITOR

generate_recommendation(cpu_util, mem_util, network_in, network_out) ==
    IF cpu_util < Pct(5) /\ mem_util < Pct(20) THEN IDLE
    ELSE IF cpu_util < Pct(10) /\ mem_util < Pct(30) THEN DOWNSIZE
    ELSE IF cpu_util < Pct(20) /\ mem_util < Pct(40) THEN SPOT
    ELSE IF cpu_util > Pct(80) \/ mem_util > Pct(80) THEN HIGH
    ELSE MONITOR

----------------------------------------------------------------------------
(* get_all_instance_ids *)

\* failAfter: the number of pages the paginator yields before it raises
NoFailure == 0 - 1

RECURSIVE RunningOfInstances(_)
RunningOfInstances(instances) ==
    IF instances = <<>> THEN <<>>
    ELSE (IF Head(instances).State.Name = "running"
          THEN <<Head(instances).InstanceId>> ELSE <<>>)
         \o RunningOfInstances(Tail(instances))

RECURSIVE RunningOfReservations(_)
RunningOfReservations(reservations) ==
    IF reservations = <<>> THEN <<>>
    ELSE RunningOfInstances(Head(reservations).Instances)
         \o RunningOfReservations(Tail(reservations))

RECURSIVE RunningOfPages(_)
RunningOfPages(pages) ==
    IF pages = <<>> THEN <<>>
    ELSE RunningOfReservations(Head(pages).Reservations)
         \o RunningOfPages(Tail(pages))

\* variant: the try inside the paging loop, keeping the pages already read
get_all_instance_ids_partial(pages, failAfter) ==
    IF failAfter = NoFailure
    THEN Ret(RunningOfPages(pages))
    ELSE Ret(RunningOfPages(SubSeq(pages, 1, failAfter)))

RECURSIVE Flatten(_)
Flatten(seqs) == IF seqs = <<>> THEN <<>> ELSE Head(seqs) \o Flatten(Tail(seqs))

\* every instance of the inventory, in the order the API yields them
InstancesOf(pages) ==
    Flatten([p \in 1..Len(pages) |->
                Flatten([r \in 1..Len(pages[p].Reservations) |->
                            pages[p].Reservations[r].Instances])])

\* variant: without the test on the state name
get_all_instance_ids_nofilter(pages, failAfter) ==
    IF failAfter = NoFailure
    THEN Ret([i \in 1..Len(InstancesOf(pages)) |-> InstancesOf(pages)[i].InstanceId])
    ELSE Ret(<<>>)

get_all_instance_ids(pages, failAfter) ==
    IF failAfter = NoFailure
    THEN Ret(RunningOfPages(pages))
    ELSE Ret(<<>>)          \* except Exception: return []

----------------------------------------------------------------------------
(* The metadata and metric fetchers.  An upstream response is               *)
(* [kind, v]: kind "error" when the boto3 call raises, "empty" when it      *)
(* answers with no tag / no reservation / no data point, "data" with v.     *)

ErrorResp(v) == [kind |-> "error", v |-> v]
EmptyResp(v) == [kind |-> "empty", v |-> v]
DataResp(v) == [kind |-> "data", v |-> v]

\* The except clause of get_instance_name calls re.sub, and the module never
\* imports re (the import is only named in a comment): evaluating the handler
\* raises NameError, which leaves get_instance_name.
get_instance_name(response) ==
    IF response.kind = "error" THEN Raise("NameError")
    ELSE IF response.kind = "data" THEN Ret(response.v)   \* response['Tags'][0]['Value']
    ELSE Ret("N/A")

get_instance_type(response) ==
    IF response.kind = "error" THEN Ret("Unknown")
    ELSE IF response.kind = "data" THEN Ret(response.v)
    ELSE Ret("Unknown")      \* Reservations[0]: IndexError, caught

\* variant: without the test on an empty Datapoints
get_cloudwatch_metric_unchecked(response) ==
    IF response.kind = "error" THEN Ret(0)
    ELSE IF response.kind = "data" THEN Ret(response.v)
    ELSE Raise("IndexError")     \* Datapoints[0] of an empty list

\* variant: a negative marker instead of 0 when there is no data point
get_cloudwatch_metric_sentinel(response) ==
    IF response.kind = "error" THEN Ret(0)
    ELSE IF response.kind = "data" THEN Ret(response.v)
    ELSE Ret(0 - BytesPerMB)

get_cloudwatch_metric(response) ==
    IF response.kind = "error" THEN Ret(0)
    ELSE IF response.kind = "data" THEN Ret(response.v)   \* Datapoints[0][statistic]
    ELSE Ret(0)

\* the report's keys
ReportFields == {"instance_id", "name", "instance_type", "cpu_util", "mem_util",
                 "network_in", "network_out", "disk_read", "disk_write",
                 "recommendation"}

\* the six statistics get_instance_metrics asks for, by the report key they fill
MetricFields == {"cpu_util", "mem_util", "network_in", "network_out",
                 "disk_read", "disk_write"}

\* the calls of get_instance_metrics in program order: an exception of one of
\* them leaves get_instance_metrics at that call
FetchOrder == <<"name", "instance_type", "cpu_util", "mem_util",
                "network_in", "network_out", "disk_read", "disk_write">>

\* variant: the recommendation taken from the figures before they are rounded
get_instance_metrics_classify_raw(instance_id, responses) ==
    LET fetched == [f \in DOMAIN responses |->
                       IF f = "name" THEN get_instance_name(responses[f])
                       ELSE IF f = "instance_type" THEN get_instance_type(responses[f])
                       ELSE get_cloudwatch_metric(responses[f])]
        failed == {i \in 1..Len(FetchOrder) : fetched[FetchOrder[i]].raised}
        first == CHOOSE i \in failed : \A j \in failed : i <= j
        cpu_util == Round2(fetched.cpu_util.value, PctDen)
        mem_util == Round2(fetched.mem_util.value, PctDen)
        network_in == Round2(fetched.network_in.value, BytesPerMB)
        network_out == Round2(fetched.network_out.value, BytesPerMB)
        disk_read == Round2(fetched.disk_read.value, BytesPerMB)
        disk_write == Round2(fetched.disk_write.value, BytesPerMB)
    IN  IF failed # {} THEN fetched[FetchOrder[first]]
        ELSE Ret([instance_id |-> instance_id,
                  name |-> fetched.name.value,
                  instance_type |-> fetched.instance_type.value,
                  cpu_util |-> cpu_util,
                  mem_util |-> mem_util,
                  network_in |-> network_in,
                  network_out |-> network_out,
                  disk_read |-> disk_read,
                  disk_write |-> disk_write,
                  recommendation |->
                      generate_recommendation((fetched.cpu_util.value * 100) \div PctDen,
                                              (fetched.mem_util.value * 100) \div PctDen,
                                              network_in, network_out)])

\* responses: the upstream answer to each call of FetchOrder
get_instance_metrics(instance_id, responses) ==
    LET fetched == [f \in DOMAIN responses |->
                       IF f = "name" THEN get_instance_name(responses[f])
                       ELSE IF f = "instance_type" THEN get_instance_type(responses[f])
                       ELSE get_cloudwatch_metric(responses[f])]
        failed == {i \in 1..Len(FetchOrder) : fetched[FetchOrder[i]].raised}
        first == CHOOSE i \in failed : \A j \in failed : i <= j
        cpu_util == Round2(fetched.cpu_util.value, PctDen)
        mem_util == Round2(fetched.mem_util.value, PctDen)
        network_in == Round2(fetched.network_in.value, BytesPerMB)
        network_out == Round2(fetched.network_out.value, BytesPerMB)
        disk_read == Round2(fetched.disk_read.value, BytesPerMB)
        disk_write == Round2(fetched.disk_write.value, BytesPerMB)
    IN  IF failed # {} THEN fetched[FetchOrder[first]]
        ELSE Ret([instance_id |-> instance_id,
                  name |-> fetched.name.value,
                  instance_type |-> fetched.instance_type.value,
                  cpu_util |-> cpu_util,
                  mem_util |-> mem_util,
                  network_in |-> network_in,
                  network_out |-> network_out,
                  disk_read |-> disk_read,
                  disk_write |-> disk_write,
                  recommendation |->
                      generate_recommendation(cpu_util, mem_util, network_in, network_out)])

----------------------------------------------------------------------------
(* Inputs: what the upstream services can answer *)

\* most instances of an inventory handed to a direct call of get_all_instance_ids
MaxListed == 2

InstanceIdPool == {"i-12345678", "i-87654321", "i-0a1b2c3d", "i-0d4e5f6a"}
PoolOrder == <<"i-12345678", "i-87654321", "i-0a1b2c3d", "i-0d4e5f6a">>
StateNames == {"running", "stopped", "pending"}

Instance(id, state) == [InstanceId |-> id, State |-> [Name |-> state]]

\* the inventory after instance inst is appended, opening a new page or a new
\* reservation first when attach says so
AddInstance(pages, inst, attach) ==
    IF attach = "page"
    THEN Append(pages, [Reservations |-> << [Instances |-> <<inst>>] >>])
    ELSE LET p == Len(pages)
             rs == pages[p].Reservations
         IN  IF attach = "reservation" \/ rs = <<>>
             THEN [pages EXCEPT ![p].Reservations = Append(rs, [Instances |-> <<inst>>])]
             ELSE [pages EXCEPT ![p].Reservations[Len(rs)].Instances = Append(@, inst)]

RECURSIVE BuildInventory(_, _, _, _)
BuildInventory(ids, states, attach, n) ==
    IF n = 0 THEN << [Reservations |-> <<>>] >>
    ELSE AddInstance(BuildInventory(ids, states, attach, n - 1),
                     Instance(ids[n], states[n]), attach[n])

\* the sequences of at most max distinct identifiers
DistinctIds(max) ==
    UNION { {ids \in [1..n -> InstanceIdPool] : \A i, j \in 1..n : ids[i] = ids[j] => i = j}
            : n \in 0..max }

\* every paged inventory that holds the instances of one of idSeqs
Inventories(idSeqs, stateNames, attachments) ==
    UNION {
        { BuildInventory(ids, states, attach, Len(ids)) :
            states \in [1..Len(ids) -> stateNames],
            attach \in [1..Len(ids) -> attachments] }
        : ids \in idSeqs }

\* utilization figures around every threshold of the classifier, in hundredths
UtilValues == {0, 300, 499, 500, 501, 999, 1000, 1900, 1999, 2000, 2999, 3000,
               3999, 4000, 5000, 8000, 8001, 10000}
NetValues == {0, 50, 50000}

\* raw percentages in units of 1/PctDen: 3.0, 0.125, 4.9990234375, 100.0, and
\* what a custom namespace may hold as well: -1.0, 150.0
RawPercents == {3 * PctDen, 128, 5119, 100 * PctDen, 0 - PctDen, 150 * PctDen}
\* raw byte counts: 1 MB, 0.125 MB, and a negative data point
RawBytes == {1048576, 131072, 0 - 1048576}

NameResponses == {ErrorResp(""), EmptyResp(""), DataResp("test-server")}
TypeResponses == {ErrorResp(""), EmptyResp(""), DataResp("t3.micro")}
PercentResponses == {ErrorResp(0), EmptyResp(0)} \cup {DataResp(v) : v \in RawPercents}
ByteResponses == {ErrorResp(0), EmptyResp(0)} \cup {DataResp(v) : v \in RawBytes}

AllResponses ==
    [name : NameResponses, instance_type : TypeResponses,
     cpu_util : PercentResponses, mem_util : PercentResponses,
     network_in : ByteResponses, network_out : ByteResponses,
     disk_read : ByteResponses, disk_write : ByteResponses]

----------------------------------------------------------------------------
(* Direct calls of the methods of a freshly constructed object *)

NoCall == [fn |-> "none"]
NoFile == [exists |-> FALSE, written_by |-> "nobody", lines |-> <<>>]
NoMessage == [html |-> <<>>, attached |-> FALSE, attachment |-> NoFile]

Constructed ==
    /\ pc = "collect_all_instances_data"
    /\ instance_ids = <<>>
    /\ instances_data = <<>>
    /\ msg = NoMessage
    /\ outbox = <<>>
    /\ exit_code = 0 - 1
    /\ trace = <<>>
    /\ call = NoCall

InitUnit ==
    /\ Constructed
    /\ inventory = <<>>
    /\ csv_file = NoFile

Unused == <<inventory, pc, instance_ids, instances_data, csv_file,
            msg, outbox, exit_code, trace>>

CallGenerateRecommendation ==
    /\ call = NoCall
    /\ \E cpu \in UtilValues, mem \in UtilValues, nin \in NetValues, nout \in NetValues :
        /\ call' = [fn |-> "generate_recommendation",
                    cpu_util |-> cpu, mem_util |-> mem,
                    network_in |-> nin, network_out |-> nout,
                    result |-> generate_recommendation(cpu, mem, nin, nout)]
        /\ UNCHANGED Unused

\* two calls that agree on cpu_util and mem_util
CallGenerateRecommendationTwice ==
    /\ call = NoCall
    /\ \E cpu \in UtilValues, mem \in UtilValues,
          nin \in NetValues, nout \in NetValues, nin2 \in NetValues, nout2 \in NetValues :
        /\ call' = [fn |-> "generate_recommendation twice",
                    cpu_util |-> cpu, mem_util |-> mem,
                    network_in |-> nin, network_out |-> nout,
                    network_in2 |-> nin2, network_out2 |-> nout2,
                    result |-> generate_recommendation(cpu, mem, nin, nout),
                    result2 |-> generate_recommendation(cpu, mem, nin2, nout2)]
        /\ UNCHANGED Unused

CallGetAllInstanceIds ==
    /\ call = NoCall
    /\ \E pages \in Inventories(DistinctIds(MaxListed), StateNames,
                               {"instance", "reservation", "page"}) :
        \E failAfter \in {NoFailure} \cup (0..Len(pages)) :
            /\ call' = [fn |-> "get_all_instance_ids",
                        pages |-> pages, failAfter |-> failAfter,
                        result |-> get_all_instance_ids(pages, failAfter)]
            /\ UNCHANGED Unused

CallGetInstanceName ==
    /\ call = NoCall
    /\ \E response \in NameResponses :
        /\ call' = [fn |-> "get_instance_name", response |-> response,
                    result |-> get_instance_name(response)]
        /\ UNCHANGED Unused

CallGetInstanceType ==
    /\ call = NoCall
    /\ \E response \in TypeResponses :
        /\ call' = [fn |-> "get_instance_type", response |-> response,
                    result |-> get_instance_type(response)]
        /\ UNCHANGED Unused

CallGetCloudwatchMetric ==
    /\ call = NoCall
    /\ \E response \in PercentResponses \cup ByteResponses :
        /\ call' = [fn |-> "get_cloudwatch_metric", response |-> response,
                    result |-> get_cloudwatch_metric(response)]
        /\ UNCHANGED Unused

CallGetInstanceMetrics ==
    /\ call = NoCall
    /\ \E instance_id \in {"i-12345678"}, responses \in AllResponses :
        /\ call' = [fn |-> "get_instance_metrics",
                    instance_id |-> instance_id, responses |-> responses,
                    result |-> get_instance_metrics(instance_id, responses)]
        /\ UNCHANGED Unused

----------------------------------------------------------------------------
(* generate_csv_report *)

\* a cell of the CSV file: csv writes str(value)
Text(s) == [text |-> s, number |-> 0]
Number(n) == [text |-> "", number |-> n]

\* variant: the Name column moved next to the identifier
fieldnames_name_first ==
    <<"Instance ID", "Name", "Instance Type", "CPU Utilization (%)",
      "Memory Utilization (%)", "Network In (MB)", "Network Out (MB)",
      "Disk Read (MB)", "Disk Write (MB)", "Recommendation">>

fieldnames ==
    <<"Instance ID", "Instance Type", "CPU Utilization (%)",
      "Memory Utilization (%)", "Network In (MB)", "Network Out (MB)",
      "Disk Read (MB)", "Disk Write (MB)", "Name", "Recommendation">>

\* the dict handed to writer.writerow
RowDict(instance) ==
    [label \in {fieldnames[i] : i \in 1..Len(fieldnames)} |->
        CASE label = "Instance ID" -> Text(instance.instance_id)
          [] label = "Instance Type" -> Text(instance.instance_type)
          [] label = "CPU Utilization (%)" -> Number(instance.cpu_util)
          [] label = "Memory Utilization (%)" -> Number(instance.mem_util)
          [] label = "Network In (MB)" -> Number(instance.network_in)
          [] label = "Network Out (MB)" -> Number(instance.network_out)
          [] label = "Disk Read (MB)" -> Number(instance.disk_read)
          [] label = "Disk Write (MB)" -> Number(instance.disk_write)
          [] label = "Name" -> Text(instance.name)
          [] label = "Recommendation" -> Text(instance.recommendation)]

\* DictWriter: the header is the field names, a row is the dict's values in
\* the order of the field names
WriteHeader == [i \in 1..Len(fieldnames) |-> Text(fieldnames[i])]
WriteRow(rowdict) == [i \in 1..Len(fieldnames) |-> rowdict[fieldnames[i]]]

CsvLines(data) == <<WriteHeader>> \o [k \in 1..Len(data) |-> WriteRow(RowDict(data[k]))]

\* written: the number of lines written before the file system raised
\* (OpenFails: open() itself raised and the file is as it was)
OpenFails == 0 - 1

generate_csv_report(file, data, written) ==
    IF written = OpenFails THEN file
    ELSE [exists |-> TRUE, written_by |-> "this run",
          lines |-> SubSeq(CsvLines(data), 1, written)]    \* mode 'w' truncates

----------------------------------------------------------------------------
(* generate_html_content *)

\* variant: the badge thresholds compared with <=
CpuBadge_le(cpu_util) ==
    IF cpu_util <= Pct(10) THEN "badge-critical"
    ELSE IF cpu_util <= Pct(30) THEN "badge-warning"
    ELSE "badge-good"

CpuBadge(cpu_util) ==
    IF cpu_util < Pct(10) THEN "badge-critical"
    ELSE IF cpu_util < Pct(30) THEN "badge-warning"
    ELSE "badge-good"

MemBadge(mem_util) ==
    IF mem_util < Pct(30) THEN "badge-warning" ELSE "badge-good"

\* the <tr> of one instance
HtmlRow(instance) ==
    [instance_id |-> instance.instance_id,
     instance_type |-> instance.instance_type,
     cpu_badge |-> [class |-> CpuBadge(instance.cpu_util), value |-> instance.cpu_util],
     mem_badge |-> [class |-> MemBadge(instance.mem_util), value |-> instance.mem_util],
     network |-> <<instance.network_in, instance.network_out>>,
     disk_io |-> <<instance.disk_read, instance.disk_write>>,
     name |-> instance.name,
     recommendation |-> instance.recommendation]

generate_html_content(data) == [k \in 1..Len(data) |-> HtmlRow(data[k])]

\* most rows of an instances_data handed to a direct call of generate_html_content
MaxRows == 2

\* utilization figures around the badge thresholds, in hundredths
BadgeValues == {0, 999, 1000, 2999, 3000, 10000}

\* a report as the tests write it into instances_data
TestReport(instance_id, cpu_util, mem_util) ==
    [instance_id |-> instance_id, name |-> "test-server", instance_type |-> "t3.micro",
     cpu_util |-> cpu_util, mem_util |-> mem_util,
     network_in |-> Pct(10), network_out |-> Pct(5),
     disk_read |-> Pct(2), disk_write |-> Pct(1),
     recommendation |-> "Test recommendation"]

CallGenerateHtmlContent ==
    /\ call = NoCall
    /\ \E n \in 0..MaxRows :
        \E cpu \in [1..n -> BadgeValues], mem \in [1..n -> BadgeValues] :
            LET data == [k \in 1..n |-> TestReport(PoolOrder[k], cpu[k], mem[k])]
            IN  /\ call' = [fn |-> "generate_html_content", instances_data |-> data,
                            result |-> generate_html_content(data)]
                /\ UNCHANGED Unused

NextUnit ==
    \/ CallGenerateRecommendation
    \/ CallGenerateRecommendationTwice
    \/ CallGetAllInstanceIds
    \/ CallGetInstanceName
    \/ CallGetInstanceType
    \/ CallGetCloudwatchMetric
    \/ CallGetInstanceMetrics
    \/ CallGenerateHtmlContent

SpecUnit == InitUnit /\ [][NextUnit]_vars


----------------------------------------------------------------------------
(* main() and run(): one process, one run *)

\* most instances of the region's inventory in a run
MaxInstances == 2

\* the region's inventory: one instance per page, after an empty first page
RunInventories ==
    Inventories({SubSeq(PoolOrder, 1, n) : n \in 0..MaxInstances},
                {"running", "stopped"}, {"page"})

\* what the metrics API answers for one instance: an outage, no data points,
\* an idle instance (cpu 3, mem 10), a busy one (cpu 85, mem 90)
MetricProfiles ==
    { [f \in MetricFields |-> ErrorResp(0)],
      [f \in MetricFields |-> EmptyResp(0)],
      [f \in MetricFields |->
          IF f = "cpu_util" THEN DataResp(3 * PctDen)
          ELSE IF f = "mem_util" THEN DataResp(10 * PctDen)
          ELSE DataResp(BytesPerMB)],
      [f \in MetricFields |->
          IF f = "cpu_util" THEN DataResp(85 * PctDen)
          ELSE IF f = "mem_util" THEN DataResp(90 * PctDen)
          ELSE DataResp(5 * BytesPerMB)] }

RunResponses ==
    { [f \in {"name", "instance_type"} \cup MetricFields |->
          IF f = "name" THEN n ELSE IF f = "instance_type" THEN t ELSE m[f]] :
        n \in NameResponses, t \in {ErrorResp(""), DataResp("t3.micro")},
        m \in MetricProfiles }

\* a file an earlier run of the script left at CSV_FILE
StaleFile ==
    [exists |-> TRUE, written_by |-> "earlier run",
     lines |-> CsvLines(<< [instance_id |-> PoolOrder[Len(PoolOrder)],
                            name |-> "old-server", instance_type |-> "t3.micro",
                            cpu_util |-> Pct(50), mem_util |-> Pct(50),
                            network_in |-> Pct(1), network_out |-> Pct(1),
                            disk_read |-> Pct(1), disk_write |-> Pct(1),
                            recommendation |-> MONITOR] >>)]

Init ==
    /\ Constructed
    /\ inventory \in RunInventories
    /\ csv_file \in {NoFile, StaleFile}

\* a step: the stage, the instance it is about, whether it succeeded, and how
\* many pages (listing) or lines (CSV) it got through
Event(stage, id, ok, n) == [stage |-> stage, id |-> id, ok |-> ok, n |-> n]

\* variant: the email sent before the CSV is written
run_stages_email_first ==
    <<"collect_all_instances_data", "send_email_report", "generate_csv_report">>

\* the body of run()
run_stages ==
    <<"collect_all_instances_data", "generate_csv_report", "send_email_report">>

\* where run() goes when stage returns
NextStage(stage) ==
    LET i == CHOOSE k \in 1..Len(run_stages) : run_stages[k] = stage
    IN  IF i < Len(run_stages) THEN run_stages[i + 1] ELSE "complete"

\* collect_all_instances_data up to the loop: list, log, reset
GetAllInstanceIds ==
    /\ pc = "collect_all_instances_data"
    /\ \E failAfter \in {NoFailure} \cup (0..Len(inventory)) :
        LET ids == get_all_instance_ids(inventory, failAfter)
        IN  /\ instance_ids' = ids.value
            /\ instances_data' = <<>>
            /\ trace' = Append(trace, Event("get_all_instance_ids", "", failAfter = NoFailure,
                                           IF failAfter = NoFailure THEN Len(inventory)
                                           ELSE failAfter))
            /\ pc' = IF ids.value = <<>>
                     THEN NextStage("collect_all_instances_data")
                     ELSE "get_instance_metrics"
    /\ UNCHANGED <<inventory, csv_file, msg, outbox, exit_code, call>>

\* one turn of the loop of collect_all_instances_data
GetInstanceMetrics ==
    /\ pc = "get_instance_metrics"
    /\ \E responses \in RunResponses :
        LET instance_id == instance_ids[Len(instances_data) + 1]
            instance_data == get_instance_metrics(instance_id, responses)
        IN  /\ trace' = Append(trace, Event("get_instance_metrics", instance_id,
                                           ~instance_data.raised, 0))
            /\ IF instance_data.raised
               THEN /\ pc' = "except Exception"      \* nothing between here and main() catches
                    /\ UNCHANGED instances_data
               ELSE /\ instances_data' = Append(instances_data, instance_data.value)
                    /\ pc' = IF Len(instances_data) + 1 = Len(instance_ids)
                             THEN NextStage("collect_all_instances_data")
                             ELSE "get_instance_metrics"
    /\ UNCHANGED <<inventory, instance_ids, csv_file, msg, outbox, exit_code, call>>

GenerateCsvReport ==
    /\ pc = "generate_csv_report"
    /\ \E written \in {OpenFails} \cup (0..Len(instances_data) + 1) :
        /\ csv_file' = generate_csv_report(csv_file, instances_data, written)
        /\ trace' = Append(trace, Event("generate_csv_report", "",
                                        written = Len(instances_data) + 1,
                                        IF written = OpenFails THEN 0 ELSE written))
    /\ pc' = NextStage("generate_csv_report")
    /\ UNCHANGED <<inventory, instance_ids, instances_data, msg, outbox, exit_code, call>>

\* send_email_report up to the HTML body
GenerateHtmlContent ==
    /\ pc = "send_email_report"
    /\ msg' = [html |-> generate_html_content(instances_data),
               attached |-> FALSE, attachment |-> NoFile]
    /\ trace' = Append(trace, Event("generate_html_content", "", TRUE, 0))
    /\ pc' = "open csv_file"
    /\ UNCHANGED <<inventory, instance_ids, instances_data, csv_file, outbox, exit_code, call>>

\* send_email_report: open(self.csv_file, 'rb') and attach what it holds
AttachCsv ==
    /\ pc = "open csv_file"
    /\ \E readable \in BOOLEAN :
        /\ trace' = Append(trace, Event("open csv_file", "", csv_file.exists /\ readable, 0))
        /\ IF csv_file.exists /\ readable
           THEN /\ msg' = [msg EXCEPT !.attached = TRUE, !.attachment = csv_file]
                /\ pc' = "send_message"
           ELSE /\ pc' = NextStage("send_email_report")     \* caught and logged
                /\ UNCHANGED msg
    /\ UNCHANGED <<inventory, instance_ids, instances_data, csv_file, outbox, exit_code, call>>

\* send_email_report: smtplib.SMTP('localhost') and server.send_message(msg)
SendMessage ==
    /\ pc = "send_message"
    /\ \/ /\ trace' = Append(trace, Event("smtplib.SMTP", "", FALSE, 0))
          /\ UNCHANGED outbox
       \/ /\ trace' = Append(trace, Event("send_message", "", FALSE, 0))
          /\ UNCHANGED outbox
       \/ /\ trace' = Append(trace, Event("send_message", "", TRUE, 0))
          /\ outbox' = Append(outbox, msg)
    /\ pc' = NextStage("send_email_report")
    /\ UNCHANGED <<inventory, instance_ids, instances_data, csv_file, msg, exit_code, call>>

\* run() returns and main() falls off its end
MainReturns ==
    /\ pc = "complete"
    /\ pc' = "exited"
    /\ exit_code' = 0
    /\ UNCHANGED <<inventory, instance_ids, instances_data, csv_file, msg, outbox, trace, call>>

\* main(): except Exception
MainExceptException ==
    /\ pc = "except Exception"
    /\ pc' = "exited"
    /\ exit_code' = 1
    /\ trace' = Append(trace, Event("except Exception", "", FALSE, 0))
    /\ UNCHANGED <<inventory, instance_ids, instances_data, csv_file, msg, outbox, call>>

\* main(): except KeyboardInterrupt, wherever the run is
MainExceptKeyboardInterrupt ==
    /\ pc # "exited"
    /\ pc' = "exited"
    /\ exit_code' = 1
    /\ trace' = Append(trace, Event("except KeyboardInterrupt", "", FALSE, 0))
    /\ UNCHANGED <<inventory, instance_ids, instances_data, csv_file, msg, outbox, call>>

Next ==
    \/ GetAllInstanceIds
    \/ GetInstanceMetrics
    \/ GenerateCsvReport
    \/ GenerateHtmlContent
    \/ AttachCsv
    \/ SendMessage
    \/ MainReturns
    \/ MainExceptException
    \/ MainExceptKeyboardInterrupt

Spec == Init /\ [][Next]_vars

----------------------------------------------------------------------------
(* Properties *)

Range(seq) == {seq[i] : i \in 1..Len(seq)}
Happened(stage) == \E i \in 1..Len(trace) : trace[i].stage = stage
Succeeded(stage) == \E i \in 1..Len(trace) : trace[i].stage = stage /\ trace[i].ok
Failed(stage) == \E i \in 1..Len(trace) : trace[i].stage = stage /\ ~trace[i].ok
Interrupted == Happened("except KeyboardInterrupt")

\* the rows of the classifier's table, thresholds in hundredths
TableRow(i, cpu, mem) ==
    CASE i = 1 -> cpu < 500 /\ mem < 2000
      [] i = 2 -> cpu < 1000 /\ mem < 3000
      [] i = 3 -> cpu < 2000 /\ mem < 4000
      [] i = 4 -> cpu > 8000 \/ mem > 8000
      [] i = 5 -> TRUE
TableText == <<IDLE, DOWNSIZE, SPOT, HIGH, MONITOR>>

\* C1: generate_recommendation returns the text of the first row of the ordered
\* table whose condition holds; the comparisons are strict, so cpu = 5 with
\* mem = 19 is the downsize row; the result is always one of the five texts.
C1_FirstMatchingRow ==
    call.fn = "generate_recommendation" =>
        LET first == CHOOSE i \in 1..5 :
                        /\ TableRow(i, call.cpu_util, call.mem_util)
                        /\ \A j \in 1..(i - 1) : ~TableRow(j, call.cpu_util, call.mem_util)
        IN  /\ call.result = TableText[first]
            /\ call.result \in Range(TableText)
            /\ (call.cpu_util = 500 /\ call.mem_util = 1900 => call.result = DOWNSIZE)
            /\ (call.cpu_util < 500 /\ call.mem_util < 2000 => call.result = IDLE)

C1_Witness ==
    /\ call.fn = "generate_recommendation"
    /\ call.cpu_util = 500 /\ call.mem_util = 1900
    /\ call.result = DOWNSIZE

\* C2: two calls of generate_recommendation with the same cpu_util and mem_util
\* return the same recommendation, whatever their network_in and network_out.
C2_NetworkIndependent ==
    call.fn = "generate_recommendation twice" => call.result = call.result2

C2_Witness ==
    /\ call.fn = "generate_recommendation twice"
    /\ call.network_in # call.network_in2 /\ call.network_out # call.network_out2
    /\ call.result = IDLE /\ call.result2 = IDLE

\* C3: when the inventory API does not fail, get_all_instance_ids returns the
\* identifiers of exactly the running instances of every page and reservation,
\* in the order the API yields them; no instance in another state is returned.
C3_RunningIdsInOrder ==
    (call.fn = "get_all_instance_ids" /\ call.failAfter = NoFailure) =>
        LET all == InstancesOf(call.pages)
            running == SelectSeq(all, LAMBDA inst : inst.State.Name = "running")
        IN  /\ ~call.result.raised
            /\ call.result.value = [k \in 1..Len(running) |-> running[k].InstanceId]
            /\ \A k \in 1..Len(all) :
                  all[k].InstanceId \in Range(call.result.value)
                      <=> all[k].State.Name = "running"

C3_Witness ==
    /\ call.fn = "get_all_instance_ids" /\ call.failAfter = NoFailure
    /\ Len(call.pages) = 2
    /\ Len(call.result.value) = 1
    /\ \E k \in 1..Len(InstancesOf(call.pages)) :
          InstancesOf(call.pages)[k].State.Name = "pending"

\* C4: no failure of a stage leaves its stage: nothing reaches main()'s
\* except Exception, a run that is not interrupted exits with code 0, and after
\* a failed CSV or email stage the run still gets to its end.
C4_NoStageFailurePropagates ==
    /\ pc # "except Exception"
    /\ ~Happened("except Exception")
    /\ (pc = "exited" /\ ~Interrupted => exit_code = 0)
    /\ (pc = "exited" /\ ~Interrupted /\ Failed("generate_csv_report")
            => Happened("generate_html_content"))

\* C5: each fetcher turns an exception of its upstream call into its default:
\* "N/A" for the name, "Unknown" for the type, 0 for a metric.
C5_FetchersReturnDefaults ==
    /\ (call.fn = "get_instance_name" /\ call.response.kind = "error"
            => ~call.result.raised /\ call.result.value = "N/A")
    /\ (call.fn = "get_instance_type" /\ call.response.kind = "error"
            => ~call.result.raised /\ call.result.value = "Unknown")
    /\ (call.fn = "get_cloudwatch_metric" /\ call.response.kind = "error"
            => ~call.result.raised /\ call.result.value = 0)

\* C6: when the inventory call fails, after however many pages, the lister
\* returns the empty list and raises nothing: the run goes on without
\* collecting any instance, and the CSV and the HTML it produces have no
\* instance row.
C6_FailedListingIsEmpty ==
    Failed("get_all_instance_ids") =>
        /\ instance_ids = <<>>
        /\ instances_data = <<>>
        /\ ~Happened("get_instance_metrics")
        /\ pc \notin {"collect_all_instances_data", "get_instance_metrics", "except Exception"}
        /\ (pc = "exited" => exit_code = 0 \/ Interrupted)
        /\ (Succeeded("generate_csv_report") => Len(csv_file.lines) = 1)
        /\ (Happened("generate_html_content") => msg.html = <<>>)

C6_Witness ==
    /\ \E i \in 1..Len(trace) :
          /\ trace[i].stage = "get_all_instance_ids" /\ ~trace[i].ok
          /\ RunningOfPages(SubSeq(inventory, 1, trace[i].n)) # <<>>
    /\ pc = "exited" /\ exit_code = 0
    /\ Succeeded("generate_csv_report") /\ Len(csv_file.lines) = 1
    /\ Len(outbox) = 1 /\ outbox[1].html = <<>>

\* C7: every report get_instance_metrics produces (and so every report
\* collect_all_instances_data appends) has all ten fields, whichever lookups
\* failed or had no data; a metric that failed or has no data point is 0 in
\* the report, and is no error of get_instance_metrics.
C7_ReportFullyPopulated ==
    call.fn = "get_instance_metrics" =>
        /\ (call.responses.name.kind # "error" => ~call.result.raised)
        /\ (~call.result.raised =>
              /\ DOMAIN call.result.value = ReportFields
              /\ call.result.value.instance_id = call.instance_id
              /\ call.result.value.name \in {"N/A", "test-server"}
              /\ call.result.value.instance_type \in {"Unknown", "t3.micro"}
              /\ call.result.value.recommendation \in Range(TableText)
              /\ \A f \in MetricFields :
                    /\ call.result.value[f] \in Int
                    /\ (call.responses[f].kind # "data" => call.result.value[f] = 0))

C7_Witness ==
    /\ call.fn = "get_instance_metrics"
    /\ call.responses.instance_type.kind = "error"
    /\ call.responses.cpu_util.kind = "empty"
    /\ call.responses.mem_util.kind = "error"
    /\ call.responses.network_in.kind = "data"
    /\ ~call.result.raised
    /\ call.result.value.cpu_util = 0
    /\ call.result.value.instance_type = "Unknown"

\* the stages of a run
RunStages == {"get_all_instance_ids", "get_instance_metrics", "generate_csv_report",
              "generate_html_content", "send_message"}
StagesDone ==
    LET done == SelectSeq(trace, LAMBDA e : e.stage \in RunStages)
    IN  [i \in 1..Len(done) |-> <<done[i].stage, done[i].id>>]
StagesExpected ==
    << <<"get_all_instance_ids", "">> >>
    \o [i \in 1..Len(instance_ids) |-> <<"get_instance_metrics", instance_ids[i]>>]
    \o << <<"generate_csv_report", "">>, <<"generate_html_content", "">>,
          <<"send_message", "">> >>

\* C8: the stages of a run happen in the order list, collect and classify each
\* identifier in turn, write the CSV, render the HTML, send; each at most
\* once, and at most one message is handed to the mail transport.
C8_StagesInOrder ==
    /\ Len(StagesDone) <= Len(StagesExpected)
    /\ StagesDone = SubSeq(StagesExpected, 1, Len(StagesDone))
    /\ Len(outbox) <= 1

C8_Witness ==
    /\ pc = "exited" /\ exit_code = 0
    /\ Len(instance_ids) = 2
    /\ StagesDone = StagesExpected
    /\ Len(outbox) = 1

\* C9: once collect_all_instances_data is over, instances_data holds one
\* report per identifier of the lister, in the lister's order and with that
\* identifier, and no identifier twice.
C9_OneReportPerId ==
    (pc \notin {"collect_all_instances_data", "get_instance_metrics"} /\ ~Interrupted) =>
        /\ Len(instances_data) = Len(instance_ids)
        /\ \A i \in 1..Len(instances_data) : instances_data[i].instance_id = instance_ids[i]
        /\ \A i, j \in 1..Len(instances_data) :
              instances_data[i].instance_id = instances_data[j].instance_id => i = j

\* C10: a CSV stage that succeeds leaves a file of N+1 lines for the N
\* reports: the ten labels in their order, then one row per report in
\* collection order, each value under its label, and nothing of the file that
\* was there before.
C10_CsvHeaderAndRows ==
    Succeeded("generate_csv_report") =>
        /\ csv_file.exists /\ csv_file.written_by = "this run"
        /\ Len(csv_file.lines) = Len(instances_data) + 1
        /\ csv_file.lines[1] =
              <<Text("Instance ID"), Text("Instance Type"), Text("CPU Utilization (%)"),
                Text("Memory Utilization (%)"), Text("Network In (MB)"),
                Text("Network Out (MB)"), Text("Disk Read (MB)"), Text("Disk Write (MB)"),
                Text("Name"), Text("Recommendation")>>
        /\ \A k \in 1..Len(instances_data) :
              csv_file.lines[k + 1] =
                  <<Text(instances_data[k].instance_id), Text(instances_data[k].instance_type),
                    Number(instances_data[k].cpu_util), Number(instances_data[k].mem_util),
                    Number(instances_data[k].network_in), Number(instances_data[k].network_out),
                    Number(instances_data[k].disk_read), Number(instances_data[k].disk_write),
                    Text(instances_data[k].name), Text(instances_data[k].recommendation)>>

C10_Witness ==
    /\ Succeeded("generate_csv_report")
    /\ Len(instances_data) = 2
    /\ Len(csv_file.lines) = 3
    /\ csv_file.lines[2][1] = Text(instance_ids[1])
    /\ csv_file.lines[3][9] = Text("test-server")
    /\ csv_file.lines[2][3] # csv_file.lines[3][3]


\* C11: every row of the rendered HTML has one CPU badge and one memory badge
\* for its instance: the CPU badge is critical below 10, warning from 10 to
\* below 30 and good from 30 on; the memory badge is warning below 30 and good
\* from 30 on, never critical.
C11_Badges ==
    call.fn = "generate_html_content" =>
        /\ Len(call.result) = Len(call.instances_data)
        /\ \A k \in 1..Len(call.result) :
              LET cpu == call.instances_data[k].cpu_util
                  mem == call.instances_data[k].mem_util
                  row == call.result[k]
              IN  /\ row.instance_id = call.instances_data[k].instance_id
                  /\ row.cpu_badge.value = cpu
                  /\ row.mem_badge.value = mem
                  /\ row.cpu_badge.class =
                        (IF cpu < 1000 THEN "badge-critical"
                         ELSE IF cpu < 3000 THEN "badge-warning" ELSE "badge-good")
                  /\ row.mem_badge.class =
                        (IF mem < 3000 THEN "badge-warning" ELSE "badge-good")
                  /\ row.mem_badge.class # "badge-critical"

C11_Witness ==
    /\ call.fn = "generate_html_content"
    /\ Len(call.result) = 2
    /\ call.instances_data[1].cpu_util = 1000 /\ call.result[1].cpu_badge.class = "badge-warning"
    /\ call.instances_data[1].mem_util = 0 /\ call.result[1].mem_badge.class = "badge-warning"
    /\ call.instances_data[2].cpu_util = 999 /\ call.result[2].cpu_badge.class = "badge-critical"
    /\ call.instances_data[2].mem_util = 3000 /\ call.result[2].mem_badge.class = "badge-good"


PercentFields == {"cpu_util", "mem_util"}
ByteFields == {"network_in", "network_out", "disk_read", "disk_write"}

\* the data points the metrics API answered with are percentages in [0,100]
\* and byte counts >= 0
TelemetryInRange(responses) ==
    /\ \A f \in PercentFields :
          responses[f].kind = "data" => 0 <= responses[f].v /\ responses[f].v <= 100 * 1024
    /\ \A f \in ByteFields : responses[f].kind = "data" => 0 <= responses[f].v

ReportInRange(report) ==
    /\ \A f \in PercentFields : 0 <= report[f] /\ report[f] <= 10000
    /\ \A f \in ByteFields : 0 <= report[f]

\* C12 as stated: every report of get_instance_metrics has cpu_util and
\* mem_util in [0,100] and non-negative network and disk figures, whatever the
\* metrics API returned.
C12_AlwaysInRange ==
    (call.fn = "get_instance_metrics" /\ ~call.result.raised)
        => ReportInRange(call.result.value)

\* C12 amended: a report of get_instance_metrics has cpu_util and mem_util in
\* [0,100] and non-negative network and disk figures whenever the data points
\* the metrics API returned are themselves percentages in [0,100] and
\* non-negative byte counts; the collector rounds and converts, it does not
\* clamp.
C12_InRangeWhenTelemetryIs ==
    (call.fn = "get_instance_metrics" /\ ~call.result.raised
        /\ TelemetryInRange(call.responses))
        => ReportInRange(call.result.value)

C12_Witness ==
    /\ call.fn = "get_instance_metrics" /\ ~call.result.raised
    /\ TelemetryInRange(call.responses)
    /\ call.responses.cpu_util = DataResp(100 * 1024)
    /\ call.responses.mem_util.kind = "empty"
    /\ call.responses.disk_write = DataResp(131072)
    /\ call.result.value.cpu_util = 10000
    /\ call.result.value.mem_util = 0
    /\ call.result.value.disk_write = 12


\* hundredths is a nearest two-decimal figure of num / den
NearestHundredth(hundredths, num, den) ==
    LET diff == hundredths * den - 100 * num
    IN  2 * (IF diff < 0 THEN 0 - diff ELSE diff) <= den

\* C13: each byte-valued metric is stored as its raw value divided by
\* 1,048,576 and rounded to two decimals, so 1,048,576 bytes are stored as
\* exactly 1.00; each percentage metric is stored as its raw value rounded to
\* two decimals, without unit conversion.
C13_MegabytesAndRounding ==
    (call.fn = "get_instance_metrics" /\ ~call.result.raised) =>
        /\ \A f \in ByteFields :
              call.responses[f].kind = "data" =>
                  /\ NearestHundredth(call.result.value[f], call.responses[f].v, 1048576)
                  /\ (call.responses[f].v = 1048576 => call.result.value[f] = 100)
        /\ \A f \in PercentFields :
              call.responses[f].kind = "data" =>
                  NearestHundredth(call.result.value[f], call.responses[f].v, 1024)

C13_Witness ==
    /\ call.fn = "get_instance_metrics" /\ ~call.result.raised
    /\ \A f \in ByteFields : call.responses[f] = DataResp(1048576)
    /\ \A f \in ByteFields : call.result.value[f] = 100
    /\ call.responses.cpu_util = DataResp(5119) /\ call.result.value.cpu_util = 500
    /\ call.responses.mem_util = DataResp(3 * 1024) /\ call.result.value.mem_util = 300


\* C15: the recommendation of a report of get_instance_metrics is the one the
\* classifier's table gives for the cpu_util and mem_util stored in that same
\* report, that is for the rounded figures: a raw 4.999 percent is stored as
\* 5.00 and classified as 5.00.
C15_RecommendationOfStoredFigures ==
    (call.fn = "get_instance_metrics" /\ ~call.result.raised) =>
        LET report == call.result.value
            first == CHOOSE i \in 1..5 :
                        /\ TableRow(i, report.cpu_util, report.mem_util)
                        /\ \A j \in 1..(i - 1) : ~TableRow(j, report.cpu_util, report.mem_util)
        IN  report.recommendation = TableText[first]

C15_Witness ==
    /\ call.fn = "get_instance_metrics" /\ ~call.result.raised
    /\ call.responses.cpu_util = DataResp(5119)
    /\ call.responses.mem_util = DataResp(3 * 1024)
    /\ call.result.value.cpu_util = 500
    /\ call.result.value.recommendation = DOWNSIZE


\* the instances a CSV file lists: the first cell of each line under the header
CsvInstances(file) == [k \in 1..(IF Len(file.lines) = 0 THEN 0 ELSE Len(file.lines) - 1) |->
                          file.lines[k + 1][1].text]

\* the instances an HTML body lists
HtmlInstances(html) == [k \in 1..Len(html) |-> html[k].instance_id]

\* C14: every message sent carries a CSV written by this run that lists the
\* instances of the message's HTML body in the same order; a CSV left by an
\* earlier run is never sent.
C14_AttachmentMatchesBody ==
    \A i \in 1..Len(outbox) :
        /\ outbox[i].attached
        /\ outbox[i].attachment.written_by = "this run"
        /\ CsvInstances(outbox[i].attachment) = HtmlInstances(outbox[i].html)

====
